---- MODULE Spec2Model ----
(***************************************************************************)
(* EchoPilot: the mission orchestrator of drone_agent.py (a LangGraph      *)
(* state graph planner -> prepare_tool_call -> executor ->                 *)
(* decide_next_step, driven by the listening loop of run_mission) and the  *)
(* MCP tools of drone_server.py that the executor calls.                   *)
(***************************************************************************)
EXTENDS Integers, Sequences, FiniteSets, TLC

VARIABLES
    pc,                       \* position of run_mission / of the graph
    user_prompt,              \* MissionState.user_prompt
    llm_output,               \* response.content of the planner's LLM call
    mission_plan,             \* MissionState.mission_plan
    messages,                 \* MissionState.messages (operator.add reducer)
    current_step_index,       \* MissionState.current_step_index
    target_location_details,  \* MissionState.target_location_details
    mission_successful,       \* run_mission's local flag
    announcement,             \* what speaker.say told the operator last about a mission
    earlier_location,         \* history: the resolved location the mission before left
    is_drone_connected,       \* drone_server.py's global flag
    srv_call,                 \* the tool coroutine being awaited, with its arguments
    srv_pc,                   \* the await the tool coroutine stands at
    srv_locals,               \* its locals: speed_to_use, final_altitude, target
    link_log,                 \* commands sent, telemetry read and sleeps, in order
    srv_result,               \* the dictionary the tool returned
    abort_heard               \* the operator said "quit" during the poll loop

server_vars == <<is_drone_connected, srv_call, srv_pc, srv_locals, link_log,
                 srv_result, abort_heard>>

agent_vars == <<pc, user_prompt, llm_output, mission_plan, messages,
                current_step_index, target_location_details, mission_successful,
                announcement, earlier_location>>

vars == <<agent_vars, server_vars>>

\* The planner returns every plan of at most this many steps.
MaxPlan == 3

\* link_log keeps the first MaxLog events of a tool call.
MaxLog == 10

-----------------------------------------------------------------------------
(* JSON / Python values.  Every value is a record tagged by its one field, *)
(* so that values of different Python types can be compared.               *)

Str(s) == [str |-> s]
Num(n) == [num |-> n]
Obj(f) == [obj |-> f]
List(s) == [list |-> s]
None == [none |-> TRUE]
\* a Python str whose characters are the text t (a JSON string literal that
\* holds JSON again: "double-encoded")
Quoted(t) == [quoted |-> t]
\* the key is not in the state dict
Absent == [absent |-> TRUE]

IsStr(v) == "str" \in DOMAIN v
IsNum(v) == "num" \in DOMAIN v
IsObj(v) == "obj" \in DOMAIN v
IsList(v) == "list" \in DOMAIN v
IsQuoted(v) == "quoted" \in DOMAIN v

EmptyDict == Obj([k \in {} |-> None])

HasKey(d, k) == IsObj(d) /\ k \in DOMAIN d.obj

\* Python truthiness of a value (`if not mission_plan`, `state.get(...)`)
Truthy(v) ==
    IF IsList(v) THEN Len(v.list) > 0
    ELSE IF IsObj(v) THEN DOMAIN v.obj # {}
    ELSE IF IsQuoted(v) THEN Len(v.quoted) > 0
    ELSE IF IsStr(v) THEN v.str # ""
    ELSE IF IsNum(v) THEN v.num # 0
    ELSE FALSE

\* len(v) of a list or dict
PyLen(v) ==
    IF IsList(v) THEN Len(v.list)
    ELSE IF IsObj(v) THEN Cardinality(DOMAIN v.obj)
    ELSE 0

-----------------------------------------------------------------------------
(* Text of the LLM: a sequence of tokens.  A token is a piece of           *)
(* punctuation, a prose word, or a whole JSON value (object, null, string  *)
(* literal); commas and white space are left out.                          *)

Ch(c) == [ch |-> c]
LB == Ch("[")
RB == Ch("]")
\* the opening fence of a markdown json block, and a bare fence
FenceOpen == Ch("fence-json")
FenceClose == Ch("fence")
Prose == Ch("prose")

IsValueToken(t) == "ch" \notin DOMAIN t

\* json.loads: [ok, value]; ok = FALSE is json.JSONDecodeError
JsonLoads(s) ==
    IF Len(s) = 1 /\ IsValueToken(s[1])
    THEN [ok |-> TRUE, value |-> s[1]]
    ELSE IF /\ Len(s) >= 2
            /\ s[1] = LB
            /\ s[Len(s)] = RB
            /\ \A i \in 2..(Len(s) - 1) : IsValueToken(s[i])
    THEN [ok |-> TRUE, value |-> List(SubSeq(s, 2, Len(s) - 1))]
    ELSE [ok |-> FALSE, value |-> None]

\* re.search of the markdown block pattern: the leftmost opening fence that
\* some later fence follows (the first three characters of another opening
\* fence close it as well), and the nearest such fence after it.
Closes(t) == t = FenceClose \/ t = FenceOpen
FenceStarts(text) ==
    {i \in 1..Len(text) :
        text[i] = FenceOpen /\ \E j \in (i + 1)..Len(text) : Closes(text[j])}
Min(S) == CHOOSE x \in S : \A y \in S : x <= y
Max(S) == CHOOSE x \in S : \A y \in S : x >= y
FenceGroup(text) ==
    LET i == Min(FenceStarts(text))
        j == Min({k \in (i + 1)..Len(text) : Closes(text[k])})
    IN  SubSeq(text, i + 1, j - 1)

\* text.find('[') and text.rfind(']'); -1 when there is none
Find(text, t) ==
    LET S == {i \in 1..Len(text) : text[i] = t}
    IN  IF S = {} THEN -1 ELSE Min(S) - 1
RFind(text, t) ==
    LET S == {i \in 1..Len(text) : text[i] = t}
    IN  IF S = {} THEN -1 ELSE Max(S) - 1

\* the second half of extract_json_from_string: decode the snippet
DecodeSnippet(json_str) ==
    LET parsed == JsonLoads(json_str)
    IN  IF ~parsed.ok THEN List(<<>>)
        ELSE IF IsQuoted(parsed.value)
        THEN LET again == JsonLoads(parsed.value.quoted)
             IN  IF again.ok THEN again.value ELSE List(<<>>)
        ELSE parsed.value

extract_json_from_string(text) ==
    IF FenceStarts(text) # {}
    THEN DecodeSnippet(FenceGroup(text))
    ELSE LET start_index == Find(text, LB)
             end_index == RFind(text, RB)
         IN  IF start_index # -1 /\ end_index # -1 /\ end_index > start_index
             THEN DecodeSnippet(SubSeq(text, start_index + 1, end_index + 1))
             ELSE List(<<>>)

-----------------------------------------------------------------------------
(* The steps a plan is made of.  A step of the prompt's format is the JSON *)
(* object {"tool": name, "args": {...}}.  Latitudes and longitudes are in  *)
(* units of 0.0001 degree.                                                 *)

Step(tool, args) == Obj([tool |-> Str(tool), args |-> Obj(args)])

TARGET_LAT == Str("TARGET_LAT")
TARGET_LON == Str("TARGET_LON")

PreflightStep == Step("pre_flight_check", EmptyDict.obj)
LandStep == Step("land", EmptyDict.obj)
ResolveStep ==
    Step("get_coordinates_for_location", [location_name |-> Str("Eiffel Tower")])
FlyPlaceholderStep ==
    Step("fly_to_coordinates",
         [latitude |-> TARGET_LAT, longitude |-> TARGET_LON, velocity_ms |-> Num(15)])
FlyExplicitStep ==
    Step("fly_to_coordinates", [latitude |-> Num(473977), longitude |-> Num(85456)])
OrbitPlaceholderStep ==
    Step("do_orbit",
         [latitude |-> TARGET_LAT, longitude |-> TARGET_LON,
          radius_meters |-> Num(50), velocity_ms |-> Num(15)])
\* a step naming a tool the server does not have
UnknownToolStep == Step("warp_drive", EmptyDict.obj)
\* a step whose "args" is a string, not a mapping
BadArgsStep == Obj([tool |-> Str("land"), args |-> Str("now")])
\* a step without a "tool" key
NoToolStep == Obj([args |-> EmptyDict])

StepPool ==
    {PreflightStep, LandStep, ResolveStep, FlyPlaceholderStep, FlyExplicitStep,
     OrbitPlaceholderStep, UnknownToolStep, BadArgsStep}

SeqsUpTo(S, n) == UNION {[1..k -> S] : k \in 0..n}

\* the two example plans of the planner's prompt
ExamplePlans ==
    { << PreflightStep,
         Step("arm_and_takeoff", [altitude_meters |-> Num(20)]),
         Step("fly_relative", [forward_meters |-> Num(50)]),
         Step("return_to_launch", EmptyDict.obj) >>,
      << PreflightStep,
         Step("arm_and_takeoff", [altitude_meters |-> Num(30)]),
         ResolveStep, FlyPlaceholderStep, OrbitPlaceholderStep, LandStep >> }

\* every plan of up to MaxPlan steps of the pool, and the examples
Plans == SeqsUpTo(StepPool, MaxPlan) \cup ExamplePlans

\* the text of a JSON list of the given values
ListDoc(p) == <<LB>> \o p \o <<RB>>
Fenced(d) == <<FenceOpen>> \o d \o <<FenceClose>>

\* snippets other than a list of well-shaped steps
OddDocs ==
    { <<>>, <<Prose>>, <<LB, Prose, RB>>, <<LB, LandStep>>, <<RB, LandStep, LB>>,
      <<LandStep>>, <<None>>, <<EmptyDict>>,
      ListDoc(<<LandStep>>), ListDoc(<<NoToolStep>>), ListDoc(<<Str("land")>>),
      <<Quoted(ListDoc(<<LandStep>>))>>, <<Quoted(<<Prose>>)>> }

\* What the LLM may answer: the prompted format (a fenced list) with every
\* plan, and the odd snippets bare, fenced, inside prose, after prose that
\* has brackets of its own, and in a block that has two opening fences.
LLMOutputs ==
    {Fenced(ListDoc(p)) : p \in Plans}
    \cup OddDocs
    \cup {Fenced(d) : d \in OddDocs}
    \cup {<<Prose>> \o d \o <<Prose>> : d \in OddDocs}
    \cup {<<Prose>> \o Fenced(d) \o <<Prose>> : d \in OddDocs}
    \cup {<<LB, Prose, RB>> \o d : d \in OddDocs}
    \cup {<<FenceOpen>> \o d \o <<FenceOpen, LandStep, FenceClose>> : d \in OddDocs}

-----------------------------------------------------------------------------
(* The MCP server's tools, as the executor sees them: a name, the typed    *)
(* parameters it requires, and the dicts it can return.                    *)

KnownTools ==
    {Str("pre_flight_check"), Str("arm_and_takeoff"),
     Str("get_coordinates_for_location"), Str("fly_to_coordinates"),
     Str("fly_relative"), Str("do_orbit"), Str("land"), Str("return_to_launch")}

\* the parameters without a default, by the type their annotation asks for
RequiredNumbers(name) ==
    CASE name = Str("arm_and_takeoff") -> {"altitude_meters"}
      [] name = Str("fly_to_coordinates") -> {"latitude", "longitude"}
      [] name = Str("do_orbit") -> {"latitude", "longitude", "radius_meters"}
      [] OTHER -> {}
RequiredStrings(name) ==
    CASE name = Str("get_coordinates_for_location") -> {"location_name"}
      [] OTHER -> {}

ArgsAccepted(name, args) ==
    /\ \A k \in RequiredNumbers(name) : HasKey(args, k) /\ IsNum(args.obj[k])
    /\ \A k \in RequiredStrings(name) : HasKey(args, k) /\ IsStr(args.obj[k])

Result(status, message) == Obj([status |-> Str(status), message |-> Str(message)])

NotConnected == Result("Error", "Drone is not connected.")

\* what the geocoding service may find for a name
Places ==
    { [latitude |-> 488584, longitude |-> 22945, address |-> "Tour Eiffel, Paris"],
      [latitude |-> 407128, longitude |-> -740060, address |-> "Eiffel Tower, Texas"] }

GeoSuccess(p) ==
    Obj([status |-> Str("Success"), latitude |-> Num(p.latitude),
         longitude |-> Num(p.longitude), address |-> Str(p.address)])

\* the dicts the return statements of each tool produce
ToolReturns(name) ==
    CASE name = Str("pre_flight_check") ->
            {NotConnected,
             Result("Success", "All pre-flight checks passed. Drone is armable."),
             Result("Error", "Pre-flight checks failed. Drone is not armable."),
             Result("Error", "Pre-flight check timed out.")}
      [] name = Str("arm_and_takeoff") ->
            {NotConnected,
             Result("Success", "Arm and takeoff successful."),
             Result("Error", "Arm/Takeoff failed")}
      [] name = Str("get_coordinates_for_location") ->
            {GeoSuccess(p) : p \in Places}
            \cup {Result("Error", "Could not find coordinates"),
                  Result("Error", "Geocoding or network request failed")}
      [] name \in {Str("fly_to_coordinates"), Str("fly_relative")} ->
            {NotConnected,
             Result("Success", "Navigation successful and arrival confirmed."),
             Result("Error", "Telemetry lost during flight."),
             Result("Error", "Goto location failed")}
      [] name = Str("do_orbit") ->
            {NotConnected,
             Result("Success", "Orbit action completed after 60 seconds."),
             Result("Error", "Orbit failed")}
      [] name = Str("land") ->
            {NotConnected,
             Result("Success", "Landing successful."),
             Result("Error", "Landing failed")}
      [] name = Str("return_to_launch") ->
            {NotConnected,
             Result("Success", "Return to launch successful."),
             Result("Error", "RTL failed")}

-----------------------------------------------------------------------------
(* Messages of the graph state.                                            *)

\* AIMessage(content="", tool_calls=[{"id": f"call_{index}", ...}])
AIMessage(index, tool_name, tool_args) ==
    [type |-> "ai",
     tool_calls |-> <<[id |-> <<"call_", index>>, name |-> tool_name, args |-> tool_args]>>]

\* content of a ToolMessage: the JSON text of a returned dict, or plain text
JsonText(v) == [json |-> v]
PlainText(s) == [plain |-> s]

ToolMessage(call, status, content) ==
    [type |-> "tool", name |-> call.name, tool_call_id |-> call.id,
     status |-> status, content |-> content]

\* '"status": "Error"' in content
ContainsErrorStatus(content) ==
    /\ "json" \in DOMAIN content
    /\ HasKey(content.json, "status")
    /\ content.json.obj.status = Str("Error")

\* getattr(message, 'status', None) == 'error'
StatusIsError(m) == "status" \in DOMAIN m /\ m.status = "error"

Last(seq) == seq[Len(seq)]

-----------------------------------------------------------------------------
(* The executor node, ToolNode(tools): it runs the one tool call of the    *)
(* last AIMessage and appends a ToolMessage.  A name that is no tool, a    *)
(* call whose arguments the tool's signature rejects, and a tool that      *)
(* raises all give a ToolMessage with status "error".                      *)

ExecutorOutcomes(call) ==
    IF call.name \notin KnownTools
    THEN {ToolMessage(call, "error", PlainText("Error: not a valid tool"))}
    ELSE IF ~ArgsAccepted(call.name, call.args)
    THEN {ToolMessage(call, "error", PlainText("Error: invalid arguments"))}
    ELSE {ToolMessage(call, "success", JsonText(r)) : r \in ToolReturns(call.name)}
         \cup {ToolMessage(call, "error", PlainText("Error: tool raised"))}

-----------------------------------------------------------------------------
(* The nodes and routers of the graph.                                     *)

\* should_plan_or_end: the node that runs after the planner
should_plan_or_end(plan) ==
    IF Truthy(plan) THEN "prepare_tool_call" ELSE "END"

\* plan[index]; step["tool"]; step.get("args", {}).copy(): whether any of
\* them raises (KeyError, IndexError, TypeError, AttributeError)
PrepareRaises(plan, index) ==
    \/ ~IsList(plan)
    \/ index >= Len(plan.list)
    \/ LET step == plan.list[index + 1]
       IN  \/ ~HasKey(step, "tool")
           \/ HasKey(step, "args") /\ ~IsObj(step.obj.args)

\* mutant of PreparedArgs: coordinates the plan gives as numbers are kept
PreparedArgs_KeepsExplicit(step, details) ==
    LET tool_name == step.obj.tool
        tool_args == IF HasKey(step, "args") THEN step.obj.args ELSE EmptyDict
        Given(k) == k \in DOMAIN tool_args.obj /\ IsNum(tool_args.obj[k])
    IN  IF Truthy(details) /\ tool_name \in {Str("fly_to_coordinates"), Str("do_orbit")}
        THEN Obj([k \in DOMAIN tool_args.obj \cup {"latitude", "longitude"} |->
                    IF k = "latitude" /\ ~Given(k) THEN details.obj.latitude
                    ELSE IF k = "longitude" /\ ~Given(k) THEN details.obj.longitude
                    ELSE tool_args.obj[k]])
        ELSE tool_args

\* tool_args of prepare_tool_call_node, lines 162-175
PreparedArgs(step, details) ==
    LET tool_name == step.obj.tool
        tool_args == IF HasKey(step, "args") THEN step.obj.args ELSE EmptyDict
    IN  IF Truthy(details) /\ tool_name \in {Str("fly_to_coordinates"), Str("do_orbit")}
        THEN Obj([k \in DOMAIN tool_args.obj \cup {"latitude", "longitude"} |->
                    IF k = "latitude" THEN details.obj.latitude
                    ELSE IF k = "longitude" THEN details.obj.longitude
                    ELSE tool_args.obj[k]])
        ELSE tool_args

\* mutant of DecideIsError: only the content is tested, not the status
DecideIsError_ContentOnly(m) ==
    m.type = "tool" /\ ContainsErrorStatus(m.content)

\* the error test of decide_next_step_node, lines 192-194
DecideIsError(m) ==
    m.type = "tool" /\ (StatusIsError(m) \/ ContainsErrorStatus(m.content))

\* mutant of RouterIsError: only the status is tested, not the content
RouterIsError_StatusOnly(m) == StatusIsError(m)

\* the error test of should_continue_or_end, lines 224-225
RouterIsError(m) ==
    \/ StatusIsError(m)
    \/ "content" \in DOMAIN m /\ ContainsErrorStatus(m.content)

\* the error test of run_mission's event loop, line 290
EventIsError(m) == StatusIsError(m) \/ ContainsErrorStatus(m.content)

\* lines 201-206: the ToolMessage is a geocoding result with status Success
StoresLocation(m) ==
    /\ m.type = "tool"
    /\ m.name = Str("get_coordinates_for_location")
    /\ "json" \in DOMAIN m.content
    /\ HasKey(m.content.json, "status")
    /\ m.content.json.obj.status = Str("Success")

\* mutant of DecideUpdates: a location once stored is kept
DecideUpdates_FirstResolutionKept(m, index, details) ==
    IF DecideIsError(m)
    THEN [current_step_index |-> index, target_location_details |-> details]
    ELSE [current_step_index |-> index + 1,
          target_location_details |->
              IF StoresLocation(m) /\ ~Truthy(details) THEN m.content.json ELSE details]

\* mutant of DecideUpdates: a failed step clears the stored location
DecideUpdates_ClearsOnError(m, index, details) ==
    IF DecideIsError(m)
    THEN [current_step_index |-> index, target_location_details |-> EmptyDict]
    ELSE [current_step_index |-> index + 1,
          target_location_details |->
              IF StoresLocation(m) THEN m.content.json ELSE details]

\* decide_next_step_node: the updates it returns, as the next values of
\* (current_step_index, target_location_details)
DecideUpdates(m, index, details) ==
    IF DecideIsError(m)
    THEN [current_step_index |-> index, target_location_details |-> details]
    ELSE [current_step_index |-> index + 1,
          target_location_details |->
              IF StoresLocation(m) THEN m.content.json ELSE details]

\* mutant of should_continue_or_end: the error test is missing
should_continue_or_end_NoErrorCheck(m, index, plan) ==
    IF index >= PyLen(plan) THEN "END" ELSE "prepare_tool_call"

\* mutant of should_continue_or_end: the plan counts as exhausted one step early
should_continue_or_end_OffByOne(m, index, plan) ==
    IF RouterIsError(m) THEN "END"
    ELSE IF index + 1 >= PyLen(plan) THEN "END"
    ELSE "prepare_tool_call"

\* should_continue_or_end: the node that runs after decide_next_step
should_continue_or_end(m, index, plan) ==
    IF RouterIsError(m) THEN "END"
    ELSE IF index >= PyLen(plan) THEN "END"
    ELSE "prepare_tool_call"

-----------------------------------------------------------------------------
(* run_mission: the listening loop and the run of the graph.               *)

\* what listen_for_command may return besides None: the lower-cased text,
\* and whether "quit" or "exit" occurs in it
Commands ==
    { [text |-> "take off, fly to the eiffel tower, then land",
       has_quit |-> FALSE, has_exit |-> FALSE],
      [text |-> "quit", has_quit |-> TRUE, has_exit |-> FALSE],
      [text |-> "exit", has_quit |-> FALSE, has_exit |-> TRUE] }

\* no tool coroutine is being awaited
Idle == [name |-> "none"]
NoLocals == [none |-> TRUE]

Init ==
    /\ pc = "listen"
    /\ user_prompt = ""
    /\ llm_output = <<>>
    /\ mission_plan = Absent
    /\ messages = <<>>
    /\ current_step_index = 0
    /\ target_location_details = EmptyDict
    /\ mission_successful = TRUE
    /\ announcement = "Drone assistant is ready."
    /\ earlier_location = EmptyDict
    /\ is_drone_connected = FALSE
    /\ srv_call = Idle
    /\ srv_pc = "idle"
    /\ srv_locals = NoLocals
    /\ link_log = <<>>
    /\ srv_result = None
    /\ abort_heard = FALSE

mission_vars ==
    <<user_prompt, llm_output, mission_plan, messages, current_step_index,
      target_location_details, mission_successful>>

\* mutant of InitialLocation: the new mission keeps what the last one resolved
InitialLocation_CarriedOver(left_over) == left_over

\* line 277: target_location_details of initial_state, whatever was left over
InitialLocation(left_over) == EmptyDict

\* lines 262-282 and 307-310: one turn of the loop up to the start of the graph
ListenForCommand ==
    /\ pc = "listen"
    /\ UNCHANGED server_vars
    /\ \/ /\ announcement' = "I didn't catch that."
          /\ UNCHANGED <<pc, mission_vars, earlier_location>>
       \/ \E user_command \in Commands :
            /\ user_command.has_quit \/ user_command.has_exit
            /\ announcement' = "Shutting down. Goodbye."
            /\ pc' = "shutdown"
            /\ UNCHANGED <<mission_vars, earlier_location>>
       \/ \E user_command \in Commands :
            /\ ~(user_command.has_quit \/ user_command.has_exit)
            /\ announcement' = "Understood. Planning the mission now."
            /\ user_prompt' = user_command.text
            /\ current_step_index' = 0
            /\ messages' = <<>>
            /\ target_location_details' = InitialLocation(target_location_details)
            /\ earlier_location' = target_location_details
            /\ mission_plan' = Absent
            /\ llm_output' = <<>>
            /\ mission_successful' = TRUE
            /\ pc' = "planner"

\* planner_node, then should_plan_or_end; LLM.invoke may raise
PlannerNode ==
    /\ pc = "planner"
    /\ UNCHANGED <<server_vars, earlier_location>>
    /\ \/ \E content \in LLMOutputs :
            /\ llm_output' = content
            /\ mission_plan' = extract_json_from_string(content)
            /\ pc' = should_plan_or_end(mission_plan')
            /\ UNCHANGED <<user_prompt, messages, current_step_index,
                           target_location_details, mission_successful, announcement>>
       \/ /\ pc' = "crashed"
          /\ UNCHANGED <<mission_vars, announcement>>

\* prepare_tool_call_node; an exception leaves the graph and run_mission
PrepareToolCallNode ==
    /\ pc = "prepare_tool_call"
    /\ UNCHANGED <<server_vars, earlier_location>>
    /\ IF PrepareRaises(mission_plan, current_step_index)
       THEN /\ pc' = "crashed"
            /\ UNCHANGED messages
       ELSE LET step == mission_plan.list[current_step_index + 1]
            IN  /\ messages' = Append(messages,
                       AIMessage(current_step_index, step.obj.tool,
                                 PreparedArgs(step, target_location_details)))
                /\ pc' = "executor"
    /\ UNCHANGED <<user_prompt, llm_output, mission_plan, current_step_index,
                   target_location_details, mission_successful, announcement>>

\* the executor node, and run_mission's handling of its event (lines 288-300)
ExecutorNode ==
    /\ pc = "executor"
    /\ UNCHANGED <<server_vars, earlier_location>>
    /\ \E m \in ExecutorOutcomes(Last(messages).tool_calls[1]) :
         /\ messages' = Append(messages, m)
         /\ mission_successful' = IF EventIsError(m) THEN FALSE ELSE mission_successful
    /\ pc' = "decide_next_step"
    /\ UNCHANGED <<user_prompt, llm_output, mission_plan, current_step_index,
                   target_location_details, announcement>>

\* decide_next_step_node, then should_continue_or_end
DecideNextStepNode ==
    /\ pc = "decide_next_step"
    /\ UNCHANGED <<server_vars, earlier_location>>
    /\ LET updates == DecideUpdates(Last(messages), current_step_index,
                                    target_location_details)
       IN  /\ current_step_index' = updates.current_step_index
           /\ target_location_details' = updates.target_location_details
           /\ pc' = should_continue_or_end(Last(messages),
                        updates.current_step_index, mission_plan)
    /\ UNCHANGED <<user_prompt, llm_output, mission_plan, messages,
                   mission_successful, announcement>>

\* lines 303-310: the graph has ended; the overall result is spoken
MissionReport ==
    /\ pc = "END"
    /\ UNCHANGED <<server_vars, earlier_location>>
    /\ announcement' = IF mission_successful
                       THEN "Mission completed successfully."
                       ELSE "Mission was aborted due to an error."
    /\ pc' = "listen"
    /\ UNCHANGED mission_vars

Next ==
    \/ ListenForCommand
    \/ PlannerNode
    \/ PrepareToolCallNode
    \/ ExecutorNode
    \/ DecideNextStepNode
    \/ MissionReport

Spec == Init /\ [][Next]_vars

-----------------------------------------------------------------------------
(* drone_server.py: the MCP tools as coroutines, one step per await.  The  *)
(* vehicle link is the environment: a command is accepted or rejected      *)
(* (ActionError), a telemetry read gives a sample, finds the feed ended    *)
(* (StopAsyncIteration; the end of an async for) or raises another error.  *)

\* distances are in decimetres, altitudes and speeds in metres, metres/second
ArrivalThresholdDm == 50
AltitudePercent == 95
DefaultSpeed == 5
orbit_duration == 60
TickSleep == 2
SettleSleep == 1

NoValue == [none |-> TRUE]

\* the events of link_log
Command(op, args, res) ==
    [kind |-> "command", op |-> op, args |-> args, res |-> res, val |-> NoValue]
TelemetryRead(feed, res, val) ==
    [kind |-> "read", op |-> feed, args |-> NoValue, res |-> res, val |-> val]
Sleep(seconds) ==
    [kind |-> "sleep", op |-> "sleep", args |-> [seconds |-> seconds],
     res |-> "ok", val |-> NoValue]

CommandResults == {"ok", "ActionError"}

\* what drone.telemetry.position() may give; distance_dm is what
\* get_distance_metres finds between the sample and the target of the call
PositionSamples ==
    { [distance_dm |-> 51, relative_altitude_m |-> 18, absolute_altitude_m |-> 118],
      [distance_dm |-> 50, relative_altitude_m |-> 19, absolute_altitude_m |-> 119],
      [distance_dm |-> 49, relative_altitude_m |-> 20, absolute_altitude_m |-> 120] }

HealthSamples ==
    { [is_global_position_ok |-> TRUE,  is_home_position_ok |-> TRUE,  is_armable |-> TRUE],
      [is_global_position_ok |-> TRUE,  is_home_position_ok |-> TRUE,  is_armable |-> FALSE],
      [is_global_position_ok |-> FALSE, is_home_position_ok |-> TRUE,  is_armable |-> TRUE],
      [is_global_position_ok |-> TRUE,  is_home_position_ok |-> FALSE, is_armable |-> TRUE],
      [is_global_position_ok |-> FALSE, is_home_position_ok |-> FALSE, is_armable |-> FALSE] }

ArmedSamples == { [is_armed |-> TRUE], [is_armed |-> FALSE] }

HeadingSamples == { [heading_deg |-> 90] }

\* one read of a feed: a sample, the end of the feed, or an error of the link
FeedOutcomes(samples) ==
    {[res |-> "sample", val |-> v] : v \in samples}
    \cup {[res |-> "end", val |-> NoValue], [res |-> "error", val |-> NoValue]}

get_distance_metres(position) == position.distance_dm

\* the calls a client may make
ToolCalls ==
    { [name |-> "pre_flight_check"],
      [name |-> "arm_and_takeoff", altitude_meters |-> 20],
      [name |-> "fly_relative", forward_meters |-> 50, right_meters |-> 0,
       down_meters |-> 10],
      [name |-> "land"],
      [name |-> "return_to_launch"] }
    \cup { [name |-> "fly_to_coordinates", latitude |-> 488584, longitude |-> 22945,
            altitude_meters |-> a, velocity_ms |-> v] :
              a \in {None, Num(150)}, v \in {None, Num(15)} }
    \cup { [name |-> "do_orbit", radius_meters |-> r, velocity_ms |-> v,
            latitude |-> 488584, longitude |-> 22945] :
              r \in {30, 50}, v \in {None, Num(15)} }

\* link_log with one more event, while there is room
Logged(log, e) == IF Len(log) < MaxLog THEN Append(log, e) ELSE log

\* the awaits inside a loop that polls telemetry
PollLoops == {"health_loop", "altitude_loop", "tick", "poll", "armed_loop"}

\* return <dict>
Return(r) ==
    /\ srv_pc' = "returned"
    /\ srv_result' = r

\* an exception no handler of the tool catches
Raise ==
    /\ srv_pc' = "raised"
    /\ srv_result' = None

\* mutant of ConnectedOrReturn: the flag is not tested
ConnectedOrReturn_NoTest(next_pc) ==
    /\ srv_pc' = next_pc
    /\ srv_result' = srv_result

\* the first statement of every vehicle tool (lines 39, 64, 117, 173, 219, 260, 281)
ConnectedOrReturn(next_pc) ==
    IF ~is_drone_connected
    THEN Return(NotConnected)
    ELSE srv_pc' = next_pc /\ srv_result' = srv_result

\* the log after the events es, while there is room
LoggedAll(log, es) ==
    LET all == log \o es
    IN  IF Len(all) <= MaxLog THEN all ELSE SubSeq(all, 1, MaxLog)

\* await drone.action.<op>(args) inside a try with "except ActionError":
\* the sleeps "before" precede it, the sleeps "after" follow it when it is
\* accepted, and then OnOk happens; a rejection returns the dict err
Issue(before, op, args, after, OnOk, err) ==
    \E res \in CommandResults :
        IF res = "ok"
        THEN /\ link_log' = LoggedAll(link_log, before \o <<Command(op, args, res)>> \o after)
             /\ OnOk
        ELSE /\ link_log' = LoggedAll(link_log, before \o <<Command(op, args, res)>>)
             /\ Return(err)

GoTo(next_pc) ==
    /\ srv_pc' = next_pc
    /\ srv_result' = srv_result

\* main (lines 293-307): the connection state feed reports the vehicle
main ==
    /\ srv_pc = "idle"
    /\ ~is_drone_connected
    /\ is_drone_connected' = TRUE
    /\ UNCHANGED <<agent_vars, srv_call, srv_pc, srv_locals, link_log, srv_result,
                   abort_heard>>

\* a client (the executor, or another coroutine of the module) awaits a tool
InvokeTool ==
    /\ srv_pc \in {"idle", "returned", "raised"}
    /\ \E call \in ToolCalls : srv_call' = call
    /\ srv_pc' = "start"
    /\ srv_locals' = NoLocals
    /\ link_log' = <<>>
    /\ srv_result' = None
    /\ abort_heard' = FALSE
    /\ UNCHANGED <<agent_vars, is_drone_connected>>

\* mutant of HealthVerdict: a sample that is not armable ends the loop only
\* when the GPS or home position is not ok either
HealthVerdict_ArmableLast(health) ==
    IF /\ health.is_global_position_ok
       /\ health.is_home_position_ok
       /\ health.is_armable
    THEN "success"
    ELSE IF /\ ~health.is_armable
            /\ ~(health.is_global_position_ok /\ health.is_home_position_ok)
    THEN "not armable"
    ELSE "next sample"

\* lines 43-48: what one health sample decides
HealthVerdict(health) ==
    IF /\ health.is_global_position_ok
       /\ health.is_home_position_ok
       /\ health.is_armable
    THEN "success"
    ELSE IF ~health.is_armable THEN "not armable"
    ELSE "next sample"

PreflightPassed == Result("Success", "All pre-flight checks passed. Drone is armable.")
NotArmable == Result("Error", "Pre-flight checks failed. Drone is not armable.")

\* pre_flight_check (lines 30-50)
pre_flight_check ==
    /\ srv_call.name = "pre_flight_check"
    /\ \/ /\ srv_pc = "start"
          /\ ConnectedOrReturn("health_loop")
          /\ UNCHANGED <<link_log, srv_locals>>
       \/ /\ srv_pc = "health_loop"
          /\ \E o \in FeedOutcomes(HealthSamples) :
               /\ link_log' = Logged(link_log, TelemetryRead("health", o.res, o.val))
               /\ srv_locals' = IF o.res = "sample" THEN [health |-> o.val]
                                ELSE srv_locals
               /\ IF o.res = "sample"
                  THEN IF HealthVerdict(o.val) = "success"
                       THEN Return(PreflightPassed)
                       ELSE IF HealthVerdict(o.val) = "not armable"
                       THEN Return(NotArmable)
                       ELSE UNCHANGED <<srv_pc, srv_result>>
                  ELSE IF o.res = "end"
                  THEN Return(NotArmable)
                  ELSE Raise
    /\ UNCHANGED <<agent_vars, is_drone_connected, srv_call, abort_heard>>

ArmFailed == Result("Error", "Arm/Takeoff failed")

TakeoffSuccess == Result("Success", "Arm and takeoff successful.")

\* line 74
AltitudeReached(position, altitude_meters) ==
    position.relative_altitude_m * 100 >= altitude_meters * AltitudePercent

\* arm_and_takeoff (lines 53-78)
arm_and_takeoff ==
    /\ srv_call.name = "arm_and_takeoff"
    /\ \/ /\ srv_pc = "start"
          /\ ConnectedOrReturn("arm")
          /\ UNCHANGED <<link_log, srv_locals>>
       \/ /\ srv_pc = "arm"
          /\ Issue(<<>>, "arm", NoValue, <<Sleep(SettleSleep)>>,
                   GoTo("set_takeoff_altitude"), ArmFailed)
          /\ UNCHANGED srv_locals
       \/ /\ srv_pc = "set_takeoff_altitude"
          /\ Issue(<<>>, "set_takeoff_altitude",
                   [altitude |-> srv_call.altitude_meters], <<>>,
                   GoTo("takeoff"), ArmFailed)
          /\ UNCHANGED srv_locals
       \/ /\ srv_pc = "takeoff"
          /\ Issue(<<>>, "takeoff", NoValue, <<>>, GoTo("altitude_loop"), ArmFailed)
          /\ UNCHANGED srv_locals
       \/ /\ srv_pc = "altitude_loop"
          /\ \E o \in FeedOutcomes(PositionSamples) :
               /\ link_log' = Logged(link_log, TelemetryRead("position", o.res, o.val))
               /\ srv_locals' = IF o.res = "sample" THEN [position |-> o.val]
                                ELSE srv_locals
               /\ IF o.res = "sample"
                  THEN IF AltitudeReached(o.val, srv_call.altitude_meters)
                       THEN Return(TakeoffSuccess)
                       ELSE UNCHANGED <<srv_pc, srv_result>>
                  ELSE IF o.res = "end"
                  THEN Return(TakeoffSuccess)
                  ELSE Raise
    /\ UNCHANGED <<agent_vars, is_drone_connected, srv_call, abort_heard>>

GotoFailed == Result("Error", "Goto location failed")
NavigationSuccess == Result("Success", "Navigation successful and arrival confirmed.")

\* mutant of TelemetryLost: the loss of the feed is taken for an arrival
TelemetryLost_AsArrival == NavigationSuccess

\* line 151
TelemetryLost == Result("Error", "Telemetry lost during flight.")

\* line 127
AltitudeUnknown == Result("Error", "Failed to get current altitude.")

\* lines 144-147
Arrived_Inclusive(current_pos) ==
    get_distance_metres(current_pos) <= ArrivalThresholdDm

Arrived(current_pos) ==
    get_distance_metres(current_pos) < ArrivalThresholdDm

\* line 141: the heartbeat repeats the speed of line 132
HeartbeatArgs_DefaultSpeed(locals) == [speed |-> DefaultSpeed]

HeartbeatArgs(locals) == [speed |-> locals.speed_to_use]

\* fly_to_coordinates (lines 105-157); fly_relative awaits it from line 200,
\* with the target it computed, an explicit altitude and the default speed
fly_to_coordinates ==
    /\ srv_call.name \in {"fly_to_coordinates", "fly_relative"}
    /\ \/ /\ srv_pc = "start"
          /\ srv_call.name = "fly_to_coordinates"
          /\ IF ~is_drone_connected
             THEN Return(NotConnected) /\ UNCHANGED srv_locals
             ELSE /\ srv_locals' =
                        [speed_to_use |-> IF srv_call.velocity_ms # None
                                          THEN srv_call.velocity_ms.num
                                          ELSE DefaultSpeed,
                         final_altitude |-> IF srv_call.altitude_meters # None
                                            THEN srv_call.altitude_meters.num
                                            ELSE 0,
                         target |-> [latitude |-> srv_call.latitude,
                                     longitude |-> srv_call.longitude],
                         current_pos |-> NoValue]
                  /\ GoTo(IF srv_call.altitude_meters = None
                          THEN "read_altitude" ELSE "set_speed")
          /\ UNCHANGED link_log
       \/ /\ srv_pc = "read_altitude"
          /\ \E o \in FeedOutcomes(PositionSamples) :
               /\ link_log' = Logged(link_log, TelemetryRead("position", o.res, o.val))
               /\ IF o.res = "sample"
                  THEN /\ srv_locals' = [srv_locals EXCEPT
                                           !.final_altitude = o.val.absolute_altitude_m]
                       /\ GoTo("set_speed")
                  ELSE IF o.res = "end"
                  THEN /\ Return(AltitudeUnknown)
                       /\ UNCHANGED srv_locals
                  ELSE Raise /\ UNCHANGED srv_locals
       \/ /\ srv_pc = "set_speed"
          /\ Issue(<<>>, "set_current_speed", [speed |-> srv_locals.speed_to_use],
                   <<>>, GoTo("goto"), GotoFailed)
          /\ UNCHANGED srv_locals
       \/ /\ srv_pc = "goto"
          /\ Issue(<<>>, "goto_location",
                   [target |-> srv_locals.target,
                    altitude |-> srv_locals.final_altitude, yaw |-> 0],
                   <<>>, GoTo("tick"), GotoFailed)
          /\ UNCHANGED srv_locals
       \/ /\ srv_pc = "tick"
          /\ Issue(<<Sleep(TickSleep)>>, "set_current_speed",
                   HeartbeatArgs(srv_locals), <<>>, GoTo("poll"), GotoFailed)
          /\ UNCHANGED srv_locals
       \/ /\ srv_pc = "poll"
          /\ \E o \in FeedOutcomes(PositionSamples) :
               IF o.res = "sample"
               THEN IF Arrived(o.val)
                    THEN /\ srv_locals' = [srv_locals EXCEPT !.current_pos = o.val]
                         /\ link_log' = LoggedAll(link_log,
                                <<TelemetryRead("position", o.res, o.val),
                                  Sleep(TickSleep)>>)
                         /\ Return(NavigationSuccess)
                    ELSE /\ srv_locals' = [srv_locals EXCEPT !.current_pos = o.val]
                         /\ link_log' = Logged(link_log,
                                TelemetryRead("position", o.res, o.val))
                         /\ GoTo("tick")
               ELSE /\ link_log' = Logged(link_log,
                           TelemetryRead("position", o.res, o.val))
                    /\ UNCHANGED srv_locals
                    /\ IF o.res = "end"
                       THEN Return(TelemetryLost)
                       ELSE Raise
    /\ UNCHANGED <<agent_vars, is_drone_connected, srv_call, abort_heard>>

RelativeFailed == Result("Error", "Failed to execute relative flight")

\* fly_relative (lines 161-203), up to its await of fly_to_coordinates
fly_relative ==
    /\ srv_call.name = "fly_relative"
    /\ \/ /\ srv_pc = "start"
          /\ ConnectedOrReturn("rel_position")
          /\ UNCHANGED <<link_log, srv_locals>>
       \/ /\ srv_pc = "rel_position"
          /\ \E o \in FeedOutcomes(PositionSamples) :
               /\ link_log' = Logged(link_log, TelemetryRead("position", o.res, o.val))
               /\ IF o.res = "sample"
                  THEN srv_locals' = [position |-> o.val] /\ GoTo("rel_heading")
                  ELSE IF o.res = "end"
                  THEN Return(RelativeFailed) /\ UNCHANGED srv_locals
                  ELSE Raise /\ UNCHANGED srv_locals
       \/ /\ srv_pc = "rel_heading"
          /\ \E o \in FeedOutcomes(HeadingSamples) :
               /\ link_log' = Logged(link_log, TelemetryRead("heading", o.res, o.val))
               /\ IF o.res = "sample"
                  THEN /\ srv_locals' =
                             [speed_to_use |-> DefaultSpeed,
                              final_altitude |-> srv_locals.position.absolute_altitude_m
                                                 - srv_call.down_meters,
                              target |-> [origin |-> srv_locals.position,
                                          heading_deg |-> o.val.heading_deg,
                                          forward_meters |-> srv_call.forward_meters,
                                          right_meters |-> srv_call.right_meters],
                              current_pos |-> NoValue]
                       /\ GoTo("set_speed")
                  ELSE IF o.res = "end"
                  THEN Return(RelativeFailed) /\ UNCHANGED srv_locals
                  ELSE Raise /\ UNCHANGED srv_locals
    /\ UNCHANGED <<agent_vars, is_drone_connected, srv_call, abort_heard>>

OrbitFailed == Result("Error", "Orbit failed")

\* mutant of OrbitWait: the wait is the time of one lap at the asked speed
OrbitWait_OneLap(radius_meters, speed_to_use) ==
    <<Sleep((6 * radius_meters) \div speed_to_use)>>

\* lines 239-241: the wait between the orbit command and hold
OrbitWait(radius_meters, speed_to_use) == <<Sleep(orbit_duration)>>

OrbitSuccess == Result("Success", "Orbit action completed after 60 seconds.")

\* do_orbit (lines 206-249)
do_orbit ==
    /\ srv_call.name = "do_orbit"
    /\ \/ /\ srv_pc = "start"
          /\ IF ~is_drone_connected
             THEN Return(NotConnected) /\ UNCHANGED srv_locals
             ELSE /\ srv_locals' = [speed_to_use |-> IF srv_call.velocity_ms # None
                                                     THEN srv_call.velocity_ms.num
                                                     ELSE DefaultSpeed]
                  /\ GoTo("orbit_position")
          /\ UNCHANGED link_log
       \/ /\ srv_pc = "orbit_position"
          /\ \E o \in FeedOutcomes(PositionSamples) :
               /\ link_log' = Logged(link_log, TelemetryRead("position", o.res, o.val))
               /\ IF o.res = "sample"
                  THEN /\ srv_locals' = [speed_to_use |-> srv_locals.speed_to_use,
                                         absolute_altitude_m |-> o.val.absolute_altitude_m]
                       /\ GoTo("orbit")
                  ELSE IF o.res = "end"
                  THEN Return(OrbitFailed) /\ UNCHANGED srv_locals
                  ELSE Raise /\ UNCHANGED srv_locals
       \/ /\ srv_pc = "orbit"
          /\ Issue(<<>>, "do_orbit",
                   [radius_m |-> srv_call.radius_meters,
                    velocity_ms |-> srv_locals.speed_to_use,
                    latitude_deg |-> srv_call.latitude,
                    longitude_deg |-> srv_call.longitude,
                    absolute_altitude_m |-> srv_locals.absolute_altitude_m],
                   OrbitWait(srv_call.radius_meters, srv_locals.speed_to_use),
                   GoTo("hold"), OrbitFailed)
          /\ UNCHANGED srv_locals
       \/ /\ srv_pc = "hold"
          /\ Issue(<<>>, "hold", NoValue, <<Sleep(TickSleep)>>,
                   Return(OrbitSuccess), OrbitFailed)
          /\ UNCHANGED srv_locals
    /\ UNCHANGED <<agent_vars, is_drone_connected, srv_call, abort_heard>>

\* the common body of land and return_to_launch
CommandThenDisarm(op, success, failure) ==
    /\ \/ /\ srv_pc = "start"
          /\ ConnectedOrReturn("command")
          /\ UNCHANGED link_log
       \/ /\ srv_pc = "command"
          /\ Issue(<<>>, op, NoValue, <<>>, GoTo("armed_loop"), failure)
       \/ /\ srv_pc = "armed_loop"
          /\ \E o \in FeedOutcomes(ArmedSamples) :
               /\ link_log' = Logged(link_log, TelemetryRead("armed", o.res, o.val))
               /\ IF o.res = "sample"
                  THEN IF ~o.val.is_armed
                       THEN Return(success)
                       ELSE UNCHANGED <<srv_pc, srv_result>>
                  ELSE IF o.res = "end"
                  THEN Return(success)
                  ELSE Raise
    /\ UNCHANGED <<agent_vars, is_drone_connected, srv_call, srv_locals, abort_heard>>

\* land (lines 252-270)
land ==
    /\ srv_call.name = "land"
    /\ CommandThenDisarm("land", Result("Success", "Landing successful."),
                         Result("Error", "Landing failed"))

\* return_to_launch (lines 273-291)
return_to_launch ==
    /\ srv_call.name = "return_to_launch"
    /\ CommandThenDisarm("return_to_launch",
                         Result("Success", "Return to launch successful."),
                         Result("Error", "RTL failed"))

\* the operator says "quit" while a tool polls telemetry; run_mission reads
\* the microphone only between missions (line 264), so nothing hears it
OperatorSaysQuit ==
    /\ srv_pc \in PollLoops
    /\ ~abort_heard
    /\ abort_heard' = TRUE
    /\ UNCHANGED <<agent_vars, is_drone_connected, srv_call, srv_pc, srv_locals,
                   link_log, srv_result>>

ServerNext ==
    \/ main
    \/ InvokeTool
    \/ pre_flight_check
    \/ arm_and_takeoff
    \/ fly_to_coordinates
    \/ fly_relative
    \/ do_orbit
    \/ land
    \/ return_to_launch
    \/ OperatorSaysQuit

ServerSpec == Init /\ [][ServerNext]_vars

\* the event loop keeps running a coroutine that can take a step
FairServerSpec == ServerSpec /\ WF_vars(ServerNext)

-----------------------------------------------------------------------------
(* Vocabulary of the properties: outcomes, dispatches, terminal states.    *)

IsToolMessage(m) == m.type = "tool"
IsAIMessage(m) == m.type = "ai"

\* the execution log: the outcomes recorded so far, and the calls prepared
Outcomes == SelectSeq(messages, IsToolMessage)
Calls == SelectSeq(messages, IsAIMessage)

OutcomeIsError(m) ==
    /\ m.type = "tool"
    /\ \/ m.status = "error"
       \/ /\ "json" \in DOMAIN m.content
          /\ m.content.json.obj.status = Str("Error")

OutcomeIsSuccess(m) ==
    /\ m.type = "tool"
    /\ m.status = "success"
    /\ "json" \in DOMAIN m.content
    /\ m.content.json.obj.status = Str("Success")

\* the plan is a list of n steps
PlanLength == IF IsList(mission_plan) THEN Len(mission_plan.list) ELSE 0

\* the graph of the current mission has reached END
GraphEnded ==
    \/ pc = "END"
    \/ pc \in {"listen", "shutdown"} /\ mission_plan # Absent

\* planner_node has returned a plan of the current mission
Planned == mission_plan # Absent

\* the coordinates of the last successful get_coordinates_for_location whose
\* outcome is before position j of messages; EmptyDict when there is none
LastResolvedBefore(j) ==
    LET S == {i \in 1..(j - 1) :
                /\ i <= Len(messages)
                /\ OutcomeIsSuccess(messages[i])
                /\ messages[i].name = Str("get_coordinates_for_location")}
    IN  IF S = {} THEN EmptyDict ELSE messages[Max(S)].content.json

HasPlaceholderCoords(step) ==
    /\ HasKey(step, "args")
    /\ HasKey(step.obj.args, "latitude")
    /\ HasKey(step.obj.args, "longitude")
    /\ step.obj.args.obj.latitude = TARGET_LAT
    /\ step.obj.args.obj.longitude = TARGET_LON

NeedsCoords(name) == name \in {Str("fly_to_coordinates"), Str("do_orbit")}

\* the plan step a prepared call was made from
StepOfCall(call) == mission_plan.list[call.id[2] + 1]

-----------------------------------------------------------------------------
\* C1: once the outcome of a dispatched step is Error, nothing is dispatched
\* after it in that mission (no later step, no retry of the failed one): the
\* Error outcome stays the last message, and the graph goes from the decision
\* node to END, never back to prepare_tool_call or the executor.
C1_ErrorHaltsMission ==
    \A j \in 1..Len(messages) :
        OutcomeIsError(messages[j]) =>
            /\ j = Len(messages)
            /\ pc \in {"decide_next_step", "END", "listen", "shutdown"}

\* an Error outcome of step 0 ended a mission whose plan has later steps
C1_Witness ==
    /\ pc = "END"
    /\ PlanLength >= 3
    /\ Len(messages) = 2
    /\ OutcomeIsError(messages[2])
    /\ current_step_index = 0

\* C2: a fly_to_coordinates or do_orbit step with placeholder coordinates that
\* is prepared after a successful get_coordinates_for_location is called with
\* exactly the latitude and longitude of the most recent successful one.
C2_LastResolutionWins ==
    \A j \in 1..Len(messages) :
        IsAIMessage(messages[j]) =>
            LET call == messages[j].tool_calls[1]
                found == LastResolvedBefore(j)
            IN  ( /\ NeedsCoords(call.name)
                  /\ HasPlaceholderCoords(StepOfCall(call))
                  /\ found # EmptyDict )
                => /\ call.args.obj.latitude = found.obj.latitude
                   /\ call.args.obj.longitude = found.obj.longitude

\* two resolutions with different coordinates succeeded before a placeholder
\* step was prepared
C2_Witness ==
    /\ Len(messages) >= 5
    /\ OutcomeIsSuccess(messages[2])
    /\ OutcomeIsSuccess(messages[4])
    /\ messages[2].name = Str("get_coordinates_for_location")
    /\ messages[4].name = Str("get_coordinates_for_location")
    /\ messages[2].content # messages[4].content
    /\ IsAIMessage(messages[5])
    /\ NeedsCoords(messages[5].tool_calls[1].name)
    /\ HasPlaceholderCoords(StepOfCall(messages[5].tool_calls[1]))

\* C3: the cursor stays within 0..len(plan); within a mission it never
\* decreases and changes only by +1, in the decision node, after a Success
\* outcome; and once the graph has ended or was left by an exception, the log
\* of that mission gets no further outcome.
C3_CursorInRange == current_step_index \in 0..PyLen(mission_plan)

C3_CursorStep ==
    pc # "listen" =>
        \/ current_step_index' = current_step_index
        \/ /\ current_step_index' = current_step_index + 1
           /\ pc = "decide_next_step"
           /\ OutcomeIsSuccess(Last(messages))

C3_LogClosed ==
    pc \in {"END", "listen", "shutdown", "crashed"} =>
        \/ messages' = messages
        \/ pc = "listen" /\ pc' = "planner" /\ messages' = <<>>

C3_CursorMonotoneBounded ==
    /\ []C3_CursorInRange
    /\ [][C3_CursorStep /\ C3_LogClosed]_vars

\* the cursor has advanced twice and the mission has ended
C3_Witness ==
    /\ pc = "END"
    /\ current_step_index = 2
    /\ Len(Outcomes) = 3

-----------------------------------------------------------------------------
\* some stretch of the text decodes to a JSON list, directly or from inside a
\* string literal
HoldsJsonList(text) ==
    \E i \in 1..Len(text) : \E j \in i..Len(text) :
        LET doc == JsonLoads(SubSeq(text, i, j))
        IN  /\ doc.ok
            /\ \/ IsList(doc.value)
               \/ /\ IsQuoted(doc.value)
                  /\ JsonLoads(doc.value.quoted).ok
                  /\ IsList(JsonLoads(doc.value.quoted).value)

\* C4: if the planner's response yields no plan (it decodes to an empty list,
\* or no JSON list can be extracted or decoded from it), the graph ends right
\* after the planner: no call is prepared, no outcome recorded, cursor 0.
C4_NoPlanEndsEmpty ==
    ( /\ Planned
      /\ \/ mission_plan = List(<<>>)
         \/ ~HoldsJsonList(llm_output) )
    => /\ GraphEnded
       /\ messages = <<>>
       /\ current_step_index = 0

\* a step that names no known tool or whose arguments are not a mapping
MalformedStep(step) ==
    \/ ~HasKey(step, "tool")
    \/ step.obj.tool \notin KnownTools
    \/ HasKey(step, "args") /\ ~IsObj(step.obj.args)

\* C5: a plan with a malformed step is rejected as a whole: no step of it is
\* dispatched, so no tool ever runs and returns for it (the only outcomes it
\* could have are refusals by the executor).
C5_MalformedPlanNeverRuns ==
    ( /\ Planned
      /\ IsList(mission_plan)
      /\ \E k \in 1..Len(mission_plan.list) : MalformedStep(mission_plan.list[k]) )
    => \A k \in 1..Len(Outcomes) : Outcomes[k].status # "success"

\* C6: the placeholder tokens TARGET_LAT / TARGET_LON are never the latitude
\* or longitude of a call handed to the executor.
C6_PlaceholderNeverDispatched ==
    \A j \in 1..Len(messages) :
        IsAIMessage(messages[j]) =>
            LET args == messages[j].tool_calls[1].args
            IN  /\ ~(HasKey(args, "latitude") /\ args.obj.latitude = TARGET_LAT)
                /\ ~(HasKey(args, "longitude") /\ args.obj.longitude = TARGET_LON)

AllSuccess == \A k \in 1..Len(Outcomes) : OutcomeIsSuccess(Outcomes[k])

\* C7: when the graph has ended on a non-empty plan of N steps and every
\* outcome is Success, there were exactly N dispatches, of the plan's steps
\* 0..N-1 in this order, the cursor is N and the log holds N outcomes.
C7_AllSuccessCompletes ==
    (GraphEnded /\ PlanLength > 0 /\ AllSuccess) =>
        /\ current_step_index = PlanLength
        /\ Len(Outcomes) = PlanLength
        /\ Len(Calls) = PlanLength
        /\ \A k \in 1..PlanLength :
             /\ k <= Len(Calls)
             /\ Calls[k].tool_calls[1].id = <<"call_", k - 1>>
             /\ Calls[k].tool_calls[1].name = mission_plan.list[k].obj.tool
             /\ k <= Len(Outcomes)
             /\ Outcomes[k].tool_call_id = <<"call_", k - 1>>

\* a plan of three steps was executed to its end with three Success outcomes
C7_Witness ==
    /\ pc = "END"
    /\ PlanLength = 3
    /\ current_step_index = 3
    /\ Len(Outcomes) = 3
    /\ AllSuccess

\* C8: while the last outcome is an Error of the step at cursor i, the cursor
\* is still i, target_location_details is what the last successful resolution
\* before it stored (empty when there was none), and the log is i Success
\* outcomes followed by this one Error.
C8_ErrorLeavesContext ==
    (messages # <<>> /\ OutcomeIsError(Last(messages))) =>
        /\ Last(messages).tool_call_id = <<"call_", current_step_index>>
        /\ target_location_details = LastResolvedBefore(Len(messages))
        /\ Len(Outcomes) = current_step_index + 1
        /\ \A k \in 1..current_step_index : OutcomeIsSuccess(Outcomes[k])

\* a get_coordinates_for_location step failed after an earlier one had
\* succeeded, and the decision node has run
C8_Witness ==
    /\ pc = "END"
    /\ Len(messages) = 4
    /\ OutcomeIsSuccess(messages[2])
    /\ messages[2].name = Str("get_coordinates_for_location")
    /\ OutcomeIsError(messages[4])
    /\ messages[4].name = Str("get_coordinates_for_location")
    /\ target_location_details # EmptyDict

\* C9: calls and outcomes alternate, one call per plan index in the order
\* 0, 1, 2, ...; a call is made only when every earlier outcome is Success
\* and the cursor has reached its index; at most one call has no outcome yet,
\* and only while the executor runs.
C9_StrictSequence ==
    /\ \A j \in 1..Len(messages) :
         IF j % 2 = 1
         THEN /\ IsAIMessage(messages[j])
              /\ Len(messages[j].tool_calls) = 1
              /\ messages[j].tool_calls[1].id = <<"call_", (j - 1) \div 2>>
         ELSE /\ IsToolMessage(messages[j])
              /\ messages[j].tool_call_id = messages[j - 1].tool_calls[1].id
              /\ j < Len(messages) => OutcomeIsSuccess(messages[j])
    /\ Len(messages) % 2 = 1 =>
         /\ pc = "executor"
         /\ current_step_index = (Len(messages) - 1) \div 2

\* the third step is in flight after two recorded Success outcomes
C9_Witness ==
    /\ pc = "executor"
    /\ Len(messages) = 5
    /\ current_step_index = 2

\* the mission ended with the cursor at the end of a non-empty plan and only
\* Success outcomes
TerminatedComplete ==
    /\ GraphEnded
    /\ PlanLength > 0
    /\ current_step_index = PlanLength
    /\ Len(Outcomes) = PlanLength
    /\ AllSuccess

\* C10: the overall result spoken to the operator is success exactly when
\* the mission ended in Terminated-Complete.
C10_SuccessIffComplete ==
    /\ announcement = "Mission completed successfully." => TerminatedComplete
    /\ announcement = "Mission was aborted due to an error." => ~TerminatedComplete

-----------------------------------------------------------------------------
(* Vocabulary of the properties of the tools.                              *)

ToolReturned == srv_pc = "returned"
ToolRaised == srv_pc = "raised"

\* the status of the returned dictionary
ResultStatus == IF IsObj(srv_result) THEN srv_result.obj.status ELSE None

\* link_log holds everything the call did
LogComplete == Len(link_log) < MaxLog

\* the call met a failure of the vehicle link: the flag says not connected, a
\* command was rejected, or a telemetry feed stopped or raised
LinkFailed ==
    \/ ~is_drone_connected
    \/ \E i \in 1..Len(link_log) : link_log[i].res \in {"ActionError", "end", "error"}

-----------------------------------------------------------------------------
\* C11: every vehicle tool ends a call that met a failure of the vehicle link
\* (not connected, a rejected command, a telemetry feed that stopped or
\* raised) by returning a dictionary with status Error; it neither raises nor
\* returns another status.
C11_LinkFailureReturnsError ==
    (srv_pc \in {"returned", "raised"} /\ LinkFailed) =>
        (ToolReturned /\ ResultStatus = Str("Error"))

-----------------------------------------------------------------------------
\* C12: pre_flight_check is bounded: a call that has started to sample the
\* health feed returns (or ends) after finitely many samples, whatever the
\* feed reports, also while it keeps reporting armable with a GPS or home
\* position that is not ok.
C12_PreflightReturns ==
    (srv_call.name = "pre_flight_check" /\ srv_pc = "health_loop")
        ~> (srv_pc # "health_loop")

-----------------------------------------------------------------------------
\* C13: when the operator says "quit" while a tool is inside its poll loop,
\* the loop is interrupted: the call ends as cancelled, and a hold or land
\* command has been sent to the vehicle.
C13_AbortInterruptsPollLoop ==
    (abort_heard /\ ToolReturned) =>
        /\ ResultStatus = Str("Cancelled")
        /\ \E i \in 1..Len(link_log) :
              /\ link_log[i].kind = "command"
              /\ link_log[i].op \in {"hold", "land"}
              /\ link_log[i].res = "ok"

-----------------------------------------------------------------------------
\* C14: a fault that abandons a mission never terminates the session; in
\* particular a failure of the planner's LLM service, which leaves the mission
\* without a plan, does not make run_mission die: the session goes back to
\* the listening loop.
C14_FaultKeepsSessionRunning ==
    ~(pc = "crashed" /\ ~Planned)

-----------------------------------------------------------------------------
\* C15: do_orbit flies the circle for 30 seconds: a call that returned Success
\* has sent the orbit command, then slept 30 seconds, then sent hold, whatever
\* radius and velocity were asked for.
C15_OrbitThirtySeconds ==
    (srv_call.name = "do_orbit" /\ ToolReturned /\ ResultStatus = Str("Success")) =>
        \E i \in 1..Len(link_log) :
            /\ i + 2 <= Len(link_log)
            /\ link_log[i].kind = "command"
            /\ link_log[i].op = "do_orbit"
            /\ link_log[i].res = "ok"
            /\ link_log[i + 1] = Sleep(30)
            /\ link_log[i + 2].kind = "command"
            /\ link_log[i + 2].op = "hold"

-----------------------------------------------------------------------------
\* the arguments a plan step gives
PlanArgs(step) == IF HasKey(step, "args") THEN step.obj.args ELSE EmptyDict

\* C16, the dispatched arguments: a fly_to_coordinates or do_orbit step
\* prepared while a resolved location is stored is dispatched with the
\* latitude and longitude of that location, also when the plan gave numbers,
\* and with every other argument as in the plan; a step of any other tool is
\* dispatched with exactly the arguments of the plan.
C16_DispatchedArgs ==
    \A j \in 1..Len(messages) :
        IsAIMessage(messages[j]) =>
            LET call == messages[j].tool_calls[1]
                plan_args == PlanArgs(StepOfCall(call))
                found == LastResolvedBefore(j)
            IN  IF NeedsCoords(call.name)
                THEN found # EmptyDict =>
                        /\ call.args.obj.latitude = found.obj.latitude
                        /\ call.args.obj.longitude = found.obj.longitude
                        /\ DOMAIN call.args.obj
                              = DOMAIN plan_args.obj \cup {"latitude", "longitude"}
                        /\ \A k \in DOMAIN plan_args.obj \ {"latitude", "longitude"} :
                              call.args.obj[k] = plan_args.obj[k]
                ELSE call.args = plan_args

\* C16, the frame: preparing a call changes neither the stored plan, nor the
\* cursor, nor the resolved location.
C16_ResolutionFrame ==
    pc = "prepare_tool_call" =>
        /\ mission_plan' = mission_plan
        /\ current_step_index' = current_step_index
        /\ target_location_details' = target_location_details

\* C16: argument resolution overwrites only latitude and longitude, only for
\* fly_to_coordinates and do_orbit steps, and changes nothing of the stored
\* state of the mission.
C16_ResolutionOverwritesOnlyCoords ==
    []C16_DispatchedArgs /\ [][C16_ResolutionFrame]_vars

\* a fly_to_coordinates step with numeric coordinates in the plan has been
\* dispatched with the coordinates of the resolved location instead, and an
\* orbit step with its radius and velocity as in the plan
C16_Witness ==
    \E i, j \in 1..Len(messages) :
        /\ IsAIMessage(messages[i])
        /\ IsAIMessage(messages[j])
        /\ StepOfCall(messages[i].tool_calls[1]) = FlyExplicitStep
        /\ LastResolvedBefore(i) # EmptyDict
        /\ messages[i].tool_calls[1].args.obj.latitude # Num(473977)
        /\ StepOfCall(messages[j].tool_calls[1]) = OrbitPlaceholderStep
        /\ messages[j].tool_calls[1].args.obj.radius_meters = Num(50)
        /\ messages[j].tool_calls[1].args.obj.latitude = LastResolvedBefore(j).obj.latitude

-----------------------------------------------------------------------------
\* a health sample with GPS, home position and armable all ok
AllOk(health) ==
    /\ health.is_global_position_ok
    /\ health.is_home_position_ok
    /\ health.is_armable

\* C17: pre_flight_check decides on each health sample in order.  It returns
\* Success only upon a sample with all three flags true; the first sample
\* that is not armable (whatever its GPS and home flags) ends it with the
\* Error "not armable"; a sample that is armable but lacks GPS or home ends
\* nothing, the next sample is read; and the end of the feed ends it with
\* an Error.
C17_PreflightDecides ==
    srv_call.name = "pre_flight_check" =>
        /\ (ToolReturned /\ ResultStatus = Str("Success")) =>
              /\ srv_locals # NoLocals
              /\ AllOk(srv_locals.health)
              /\ LogComplete => Last(link_log).val = srv_locals.health
        /\ \A i \in 1..Len(link_log) :
              LET e == link_log[i]
              IN  /\ e.kind = "read" /\ e.op = "health"
                  /\ (e.res = "sample" /\ AllOk(e.val)) =>
                        /\ i = Len(link_log)
                        /\ ToolReturned
                        /\ srv_result = PreflightPassed
                  /\ (e.res = "sample" /\ ~e.val.is_armable) =>
                        /\ i = Len(link_log)
                        /\ ToolReturned
                        /\ srv_result = NotArmable
                  /\ (/\ e.res = "sample" /\ e.val.is_armable /\ ~AllOk(e.val)
                      /\ i = Len(link_log) /\ LogComplete) =>
                        srv_pc = "health_loop"
                  /\ e.res = "end" =>
                        /\ i = Len(link_log)
                        /\ ToolReturned
                        /\ ResultStatus = Str("Error")

\* after a sample that was armable without GPS, a sample with GPS and home
\* ok that is not armable has ended the call with the Error
C17_Witness ==
    /\ srv_call.name = "pre_flight_check"
    /\ ToolReturned
    /\ srv_result = NotArmable
    /\ Len(link_log) = 2
    /\ link_log[1].res = "sample"
    /\ link_log[1].val.is_armable
    /\ ~link_log[1].val.is_global_position_ok
    /\ link_log[2].res = "sample"
    /\ link_log[2].val.is_global_position_ok
    /\ link_log[2].val.is_home_position_ok
    /\ ~link_log[2].val.is_armable

-----------------------------------------------------------------------------
\* the commands of link_log, in order
IsCommand(e) == e.kind = "command"
CommandsSent == SelectSeq(link_log, IsCommand)

\* C18: arm_and_takeoff returns Success only if arm, set_takeoff_altitude and
\* takeoff were sent in that order and accepted and, after them, a position
\* sample with relative altitude of at least 0.95 of the asked altitude was
\* read (so not when the position feed ended before such a sample); and a
\* rejected command gives Error and is the last command sent.
C18_TakeoffSuccessMeansAltitude ==
    (srv_call.name = "arm_and_takeoff" /\ srv_pc \in {"returned", "raised"}) =>
        /\ ResultStatus = Str("Success") =>
              /\ Len(CommandsSent) = 3
              /\ CommandsSent[1].op = "arm"
              /\ CommandsSent[2].op = "set_takeoff_altitude"
              /\ CommandsSent[3].op = "takeoff"
              /\ \A k \in 1..3 : CommandsSent[k].res = "ok"
              /\ LogComplete =>
                    LET e == Last(link_log)
                    IN  /\ e.kind = "read"
                        /\ e.op = "position"
                        /\ e.res = "sample"
                        /\ e.val.relative_altitude_m * 100
                              >= srv_call.altitude_meters * 95
        /\ \A k \in 1..Len(CommandsSent) :
              CommandsSent[k].res = "ActionError" =>
                  /\ k = Len(CommandsSent)
                  /\ ResultStatus = Str("Error")

-----------------------------------------------------------------------------
\* the call runs the body of fly_to_coordinates
Navigating == srv_call.name \in {"fly_to_coordinates", "fly_relative"}

\* event i of link_log is the goto command, accepted
GotoAt(i) ==
    /\ link_log[i].kind = "command"
    /\ link_log[i].op = "goto_location"
    /\ link_log[i].res = "ok"

\* event i of link_log is a position sample polled after the goto command
PolledAt(i) ==
    /\ link_log[i].kind = "read"
    /\ link_log[i].op = "position"
    /\ link_log[i].res = "sample"
    /\ \E g \in 1..(i - 1) : GotoAt(g)

\* C19: fly_to_coordinates returns Success if and only if a position sample
\* polled after the goto command lies strictly less than 5.0 m from the
\* target (5.0 m itself is not arrival); as long as every polled sample is at
\* 5.0 m or more and nothing failed, the call keeps polling and has not ended.
C19_SuccessIffWithinFiveMetres ==
    Navigating =>
        /\ ResultStatus = Str("Success") =>
              /\ srv_result = NavigationSuccess
              /\ srv_locals.current_pos # NoValue
              /\ srv_locals.current_pos.distance_dm < 50
              /\ LogComplete =>
                    \E i \in 1..Len(link_log) :
                        PolledAt(i) /\ link_log[i].val = srv_locals.current_pos
        /\ \A i \in 1..Len(link_log) :
              PolledAt(i) =>
                  IF link_log[i].val.distance_dm < 50
                  THEN ToolReturned /\ srv_result = NavigationSuccess
                  ELSE (i = Len(link_log) /\ LogComplete) => srv_pc = "tick"
        /\ (/\ LogComplete
            /\ \E g \in 1..Len(link_log) : GotoAt(g)
            /\ \A i \in 1..Len(link_log) :
                  /\ link_log[i].res \in {"ok", "sample"}
                  /\ PolledAt(i) => link_log[i].val.distance_dm >= 50)
              => srv_pc \in {"tick", "poll"}

\* a call went on polling after a sample at exactly 5.0 m and returned
\* Success on a later sample at 4.9 m
C19_Witness ==
    /\ srv_call.name = "fly_to_coordinates"
    /\ ToolReturned
    /\ srv_result = NavigationSuccess
    /\ LogComplete
    /\ \E i, j \in 1..Len(link_log) :
          /\ i < j
          /\ PolledAt(i)
          /\ link_log[i].val.distance_dm = 50
          /\ PolledAt(j)
          /\ link_log[j].val.distance_dm = 49

-----------------------------------------------------------------------------
\* the speed the call has to fly at
SpeedAsked ==
    IF srv_call.name = "fly_to_coordinates" /\ srv_call.velocity_ms # None
    THEN srv_call.velocity_ms.num
    ELSE 5

\* event i of link_log is a set-speed command with the speed asked
SetSpeedAt(i) ==
    /\ link_log[i].kind = "command"
    /\ link_log[i].op = "set_current_speed"
    /\ link_log[i].args = [speed |-> SpeedAsked]

\* C20: the commands of fly_to_coordinates are set-speed, then goto, then
\* nothing but set-speed heartbeats with the same speed: goto is sent once.
\* Every position sample polled after goto is preceded by the 2 s sleep and
\* exactly one heartbeat of its tick, whatever happened in the tick before
\* (the tick follows the goto or the previous sample directly), and an
\* accepted heartbeat is followed by the read of its tick.
C20_HeartbeatEveryTick ==
    Navigating =>
        /\ \A k \in 1..Len(CommandsSent) :
              IF k = 2
              THEN CommandsSent[k].op = "goto_location"
              ELSE /\ CommandsSent[k].op = "set_current_speed"
                   /\ CommandsSent[k].args = [speed |-> SpeedAsked]
        /\ \A i \in 1..Len(link_log) :
              /\ PolledAt(i) =>
                    /\ i > 3
                    /\ SetSpeedAt(i - 1)
                    /\ link_log[i - 1].res = "ok"
                    /\ link_log[i - 2] = Sleep(2)
                    /\ GotoAt(i - 3) \/ PolledAt(i - 3)
              /\ (/\ i < Len(link_log)
                  /\ SetSpeedAt(i)
                  /\ link_log[i].res = "ok"
                  /\ \E g \in 1..(i - 1) : GotoAt(g)) =>
                    /\ link_log[i + 1].kind = "read"
                    /\ link_log[i + 1].op = "position"

\* a call at 15 m/s has sent set-speed and goto, has polled two samples, each
\* after the heartbeat of its tick, and has sent the heartbeat of a third tick
\* after a sample that was not an arrival
C20_Witness ==
    /\ srv_call.name = "fly_to_coordinates"
    /\ srv_call.velocity_ms = Num(15)
    /\ Len(CommandsSent) = 5
    /\ \E i, j \in 1..Len(link_log) :
          /\ i < j
          /\ PolledAt(i)
          /\ PolledAt(j)
          /\ link_log[j].val.distance_dm >= 50
    /\ srv_pc = "poll"

-----------------------------------------------------------------------------
\* event i of link_log is a read of the position feed, after the goto
\* command, that found the feed ended
FeedLostAt(i) ==
    /\ link_log[i].kind = "read"
    /\ link_log[i].op = "position"
    /\ link_log[i].res = "end"
    /\ \E g \in 1..(i - 1) : GotoAt(g)

\* C21: when the position feed ends while fly_to_coordinates polls for the
\* arrival, the call returns the Error "Telemetry lost during flight.", not
\* Success, and that read is the last thing it did (no further command); and
\* when the altitude was omitted and the feed ends at the first read, the call
\* returns an Error having sent no command at all.
C21_TelemetryLostIsError ==
    /\ Navigating =>
          \A i \in 1..Len(link_log) :
              FeedLostAt(i) =>
                  /\ i = Len(link_log)
                  /\ ToolReturned
                  /\ srv_result = Result("Error", "Telemetry lost during flight.")
    /\ (/\ srv_call.name = "fly_to_coordinates"
        /\ srv_call.altitude_meters = None
        /\ link_log # <<>>
        /\ link_log[1].res = "end") =>
          /\ Len(link_log) = 1
          /\ ToolReturned
          /\ srv_result = Result("Error", "Failed to get current altitude.")
          /\ CommandsSent = <<>>

\* the feed ended in the second tick of the loop, after a sample at 5.1 m,
\* and the call returned the Error
C21_Witness ==
    /\ srv_call.name = "fly_to_coordinates"
    /\ ToolReturned
    /\ ResultStatus = Str("Error")
    /\ LogComplete
    /\ link_log # <<>>
    /\ FeedLostAt(Len(link_log))
    /\ \E i \in 1..Len(link_log) : PolledAt(i) /\ link_log[i].val.distance_dm = 51

-----------------------------------------------------------------------------
\* C22: land and return_to_launch return Success only if their command was
\* sent and accepted and afterwards an armed-state sample equal to false was
\* read (so not when the armed feed ended with every sample armed); a
\* rejected command gives Error, and the armed state is not polled then.
C22_LandedMeansDisarmed ==
    (srv_call.name \in {"land", "return_to_launch"}
        /\ srv_pc \in {"returned", "raised"}) =>
        /\ ResultStatus = Str("Success") =>
              /\ Len(CommandsSent) = 1
              /\ CommandsSent[1].op = srv_call.name
              /\ CommandsSent[1].res = "ok"
              /\ LogComplete =>
                    LET e == Last(link_log)
                    IN  /\ e.kind = "read"
                        /\ e.op = "armed"
                        /\ e.res = "sample"
                        /\ ~e.val.is_armed
        /\ \A k \in 1..Len(CommandsSent) :
              CommandsSent[k].res = "ActionError" =>
                  /\ ResultStatus = Str("Error")
                  /\ Len(link_log) = 1

-----------------------------------------------------------------------------
\* event i of link_log is the accepted command op
AcceptedAt(i, op) ==
    /\ link_log[i].kind = "command"
    /\ link_log[i].op = op
    /\ link_log[i].res = "ok"

-----------------------------------------------------------------------------
\* C24: every mission starts from a fresh context: when the planner is
\* entered the cursor is 0, no location is resolved and the log is empty,
\* whatever the mission before left; so a fly_to_coordinates or do_orbit
\* step prepared before any location was resolved in its own mission is
\* dispatched with the arguments of the plan, nothing of an earlier mission
\* injected.
C24_FreshContextPerMission ==
    /\ pc = "planner" =>
          /\ current_step_index = 0
          /\ target_location_details = EmptyDict
          /\ messages = <<>>
          /\ ~Planned
    /\ \A j \in 1..Len(messages) :
          (/\ IsAIMessage(messages[j])
           /\ NeedsCoords(messages[j].tool_calls[1].name)
           /\ LastResolvedBefore(j) = EmptyDict) =>
              messages[j].tool_calls[1].args
                  = PlanArgs(StepOfCall(messages[j].tool_calls[1]))

\* the mission before left a resolved location, and this mission, which has
\* resolved none, has dispatched a fly_to_coordinates step with the
\* coordinates of its plan
C24_Witness ==
    /\ earlier_location # EmptyDict
    /\ \E j \in 1..Len(messages) :
          /\ IsAIMessage(messages[j])
          /\ LastResolvedBefore(j) = EmptyDict
          /\ StepOfCall(messages[j].tool_calls[1]) = FlyExplicitStep
          /\ messages[j].tool_calls[1].args.obj.latitude = Num(473977)

-----------------------------------------------------------------------------
\* a step of a tool coroutine
ToolStep == srv_pc \notin {"idle", "returned", "raised"}

\* C25, the outcome: a tool called while the flag says not connected has
\* returned the Error "Drone is not connected." as its first step, having
\* sent no command and read no telemetry.
C25_NotConnectedOutcome ==
    (~is_drone_connected /\ srv_pc \notin {"idle", "start"}) =>
        /\ ToolReturned
        /\ srv_result = Result("Error", "Drone is not connected.")
        /\ link_log = <<>>

\* C25, the flag: no step of a tool changes is_drone_connected.
C25_FlagUnchanged ==
    ToolStep => is_drone_connected' = is_drone_connected

\* C25: when the vehicle link is not connected every vehicle tool returns
\* Error at once, without a command or a telemetry read, and leaves the
\* connected flag as it was.
C25_NotConnectedReturnsAtOnce ==
    []C25_NotConnectedOutcome /\ [][C25_FlagUnchanged]_vars

\* fly_relative, called while not connected, has returned the Error
C25_Witness ==
    /\ ~is_drone_connected
    /\ srv_call.name = "fly_relative"
    /\ ToolReturned
    /\ srv_result = NotConnected
    /\ link_log = <<>>

-----------------------------------------------------------------------------
\* the mission ended without any dispatch, on a plan without steps
TerminatedEmpty ==
    /\ GraphEnded
    /\ PlanLength = 0
    /\ messages = <<>>

\* the mission ended on the Error outcome of its last dispatch
TerminatedFailed ==
    /\ GraphEnded
    /\ messages # <<>>
    /\ OutcomeIsError(Last(messages))

\* C26: once the planner has responded, the mission ends in one of the
\* terminal states and nowhere else: run_mission does not die in the middle
\* of it, there are never more dispatches than the plan has steps, and when
\* the graph has ended the mission is Terminated-Empty, Terminated-Failed or
\* Terminated-Complete.
C26_MissionReachesTerminal ==
    Planned =>
        /\ pc # "crashed"
        /\ Len(Calls) <= PlanLength
        /\ GraphEnded => (TerminatedEmpty \/ TerminatedFailed \/ TerminatedComplete)
====
